---- MODULE Spec2Model ----
(***************************************************************************)
(* A model of src/illumos.rs: the typed accessors over the operating       *)
(* system's identity databases (user attributes, passwd and group entries, *)
(* node name, zone name).                                                  *)
(*                                                                         *)
(* Representation of values                                                *)
(*   C string contents    a tuple of bytes (0..255) without the final NUL  *)
(*   C pointer            Null, or Ptr(bytes): a pointer and its pointee   *)
(*   Rust &str argument   a tuple of bytes, which may hold the byte 0      *)
(*   Rust String          <<"own", bytes>>: a heap copy owned by the record*)
(*   Option<T>            None, Some(x)                                    *)
(*   Result<T>            Ok(x), Err(e)                                    *)
(* The alphabet of bytes is ASCII plus the byte 255, which never occurs in *)
(* valid UTF-8.                                                            *)
(***************************************************************************)
EXTENDS Integers, Sequences, FiniteSets, TLC

VARIABLES
    errno,      \* the calling thread's errno cell (libc::___errno)
    pwbuf,      \* libc's static reply buffer of getpwnam/getpwuid
    grbuf,      \* libc's static reply buffer of getgrnam/getgrgid
    dir,        \* the directory service's content (fixed during a run)
    call,       \* what the last call was, what the library answered, and
                \* whether errno was non-zero when the call began (stale)
    ret,        \* the value the last call returned
    holding,    \* whether the caller keeps the records it was returned
    prev,       \* the record an earlier call returned, as the caller holds it
    ffi,        \* the foreign calls and reads of the last call, in order
    host,       \* nodename/zoneid/zonename: the last call and how it ended
    self,       \* the UserAttr that profiles() is called on
    profs,      \* what profiles() returned
    th,         \* two threads calling the passwd lookups: each one's place in
                \* its call, its errno, its locals and what it was returned
    lock,       \* the caller's mutex around a lookup: its holder, or 0
    serialized  \* whether the callers take the mutex around each lookup

seqVars == <<errno, pwbuf, grbuf, dir, call, ret, holding, prev, ffi>>
hostVars == <<host>>
profVars == <<self, profs>>
concVars == <<th, lock, serialized>>

----------------------------------------------------------------------------
(* Values *)

Null == <<"null">>
Ptr(bytes) == <<"ptr", bytes>>
None == <<"None">>
Some(x) == <<"Some", x>>
Ok(x) == <<"Ok", x>>
Err(e) == <<"Err", e>>
IsOk(r) == r[1] = "Ok"
IsErr(r) == r[1] = "Err"

NulError == <<"NulError">>
Utf8Error == <<"Utf8Error">>
\* bail!("<fn>: errno {}", e): the message names the library call and the code
Bail(fn, e) == <<"msg", fn, "errno", e>>

\* std::str::from_utf8 over the model's alphabet: ASCII bytes are valid, the
\* byte 255 is not
Utf8Valid(bytes) == \A i \in 1..Len(bytes) : bytes[i] < 128

\* CString::new: an interior NUL byte is an error
CString_new(name) ==
    IF \E i \in 1..Len(name) : name[i] = 0 THEN Err(NulError) ELSE Ok(name)

\* str::to_string / String::from: a copy the record owns.  loc is the place
\* of the foreign bytes copied from.
to_string_borrow(s, loc) == <<"ref", loc>>
to_string(s, loc) == <<"own", s>>

\* Passwd::from::cs and Group::from::cs: NULL is None, a pointer is decoded
\* and copied, a decoding failure is propagated by `?`
cs_lossy(lpsz, loc) ==
    IF lpsz = Null THEN Ok(None)
    ELSE IF Utf8Valid(lpsz[2]) THEN Ok(Some(to_string(lpsz[2], loc)))
    ELSE Ok(None)
cs(lpsz, loc) ==
    IF lpsz = Null THEN Ok(None)
    ELSE LET cstr == lpsz[2]
         IN  IF Utf8Valid(cstr) THEN Ok(Some(to_string(cstr, loc)))
             ELSE Err(Utf8Error)

----------------------------------------------------------------------------
(* The directory *)

BadBytes == <<255>>

PwTextFields ==
    {"pw_name", "pw_passwd", "pw_age", "pw_comment", "pw_gecos", "pw_dir", "pw_shell"}

PwA == [pw_name |-> Ptr(<<97>>), pw_passwd |-> Ptr(<<120>>), pw_uid |-> 0,
        pw_gid |-> 0, pw_age |-> Null, pw_comment |-> Ptr(<<>>),
        pw_gecos |-> Ptr(<<65>>), pw_dir |-> Ptr(<<47, 97>>),
        pw_shell |-> Ptr(<<47, 115>>)]
PwB == [pw_name |-> Ptr(<<98>>), pw_passwd |-> Null, pw_uid |-> 1,
        pw_gid |-> 1, pw_age |-> Ptr(<<>>), pw_comment |-> Null,
        pw_gecos |-> Ptr(<<66>>), pw_dir |-> Ptr(<<47, 98>>),
        pw_shell |-> Null]

PwZero == [pw_name |-> Null, pw_passwd |-> Null, pw_uid |-> 0, pw_gid |-> 0,
           pw_age |-> Null, pw_comment |-> Null, pw_gecos |-> Null,
           pw_dir |-> Null, pw_shell |-> Null]

\* The bounds of the directory's variable parts
MaxMembers == 2
MaxKv == 2

SeqsUpTo(S, n) == UNION {[1..k -> S] : k \in 0..n}

\* gr_mem: NULL, or a pointer to an array of member pointers ended by a NULL
\* sentinel; the memory after the sentinel holds other bytes
MemItems == {Ptr(<<97>>), Ptr(<<98>>), Ptr(BadBytes)}
MemArrays == {Null} \cup
    {Ptr(m \o <<Null, Ptr(<<122>>)>>) : m \in SeqsUpTo(MemItems, MaxMembers)}

GrA == [gr_name |-> Ptr(<<97>>), gr_passwd |-> Null, gr_gid |-> 0,
        gr_mem |-> Ptr(<<Ptr(<<98>>), Null>>)]
GrB == [gr_name |-> Ptr(<<98>>), gr_passwd |-> Ptr(<<>>), gr_gid |-> 1,
        gr_mem |-> Ptr(<<Ptr(<<97>>), Ptr(<<98>>), Null>>)]
GrZero == [gr_name |-> Null, gr_passwd |-> Null, gr_gid |-> 0, gr_mem |-> Null]

\* user_attr entries: the name and the key/value array (Kva) of the entry
KvItems == {[key |-> <<112>>, value |-> <<49>>],
            [key |-> <<112>>, value |-> <<50>>],
            [key |-> BadBytes, value |-> <<49>>],
            [key |-> <<113>>, value |-> BadBytes]}
UaA == [name |-> <<97>>, attr |-> <<[key |-> <<114>>, value |-> <<65>>]>>]
UaB == [name |-> <<98>>, attr |-> <<[key |-> <<112>>, value |-> <<49>>]>>]

Directory(pwb, grb, uab) ==
    [passwd |-> {PwA, pwb}, group |-> {GrA, grb}, userattr |-> {UaA, uab}]

\* The directories of the model: the entry "a" is fixed and the entry "b"
\* varies in one database at a time (one text field that is not valid UTF-8,
\* a member array, a key/value array)
Directories ==
    {Directory(PwB, GrB, UaB)}
    \cup {Directory([PwB EXCEPT ![f] = Ptr(BadBytes)], GrB, UaB) : f \in PwTextFields}
    \cup {Directory(PwB, [GrB EXCEPT ![f] = Ptr(BadBytes)], UaB) :
            f \in {"gr_name", "gr_passwd"}}
    \cup {Directory(PwB, [GrB EXCEPT !.gr_mem = m], UaB) : m \in MemArrays}
    \cup {Directory(PwB, GrB, [UaB EXCEPT !.attr = kva]) :
            kva \in SeqsUpTo(KvItems, MaxKv)}

\* What the caller may ask for: known names, an unknown name, a name with an
\* interior NUL byte; known and unknown ids
Names == {<<97>>, <<98>>, <<122>>, <<97, 0, 98>>}
Ids == {0, 1, 7}
NameKey(name) == <<"name", name>>
IdKey(id) == <<"id", id>>

\* What a library lookup may do: search the directory, or fail with an error
\* code (EIO, ENOMEM)
ErrCodes == {5, 12}
LibOutcomes == {<<"lookup">>} \cup {<<"fail", e>> : e \in ErrCodes}

Matches(entries, fld, key) == {en \in entries : en[fld] = key}

\* getpwnam/getpwuid/getgrnam/getgrgid: on a match the entry is written to
\* the static reply buffer and a pointer to it returned, errno untouched; on
\* no match NULL is returned, errno untouched; on failure NULL is returned and
\* errno set
LibLookup(entries, fld, key, out, e0, buf) ==
    IF out[1] = "fail"
    THEN [p |-> Null, errno |-> out[2], buf |-> buf, lib |-> "fail"]
    ELSE LET m == Matches(entries, fld, key)
         IN  IF m = {}
             THEN [p |-> Null, errno |-> e0, buf |-> buf, lib |-> "notfound"]
             ELSE LET en == CHOOSE x \in m : TRUE
                  IN  [p |-> Ptr("static"), errno |-> e0, buf |-> en,
                       lib |-> "found"]

----------------------------------------------------------------------------
(* Passwd::from and Group::from *)

\* The fields of the Passwd literal in evaluation order: the record's field,
\* the C struct's field, and whether it goes through cs
PwOrder == << <<"name", "pw_name", "text">>, <<"passwd", "pw_passwd", "text">>,
              <<"uid", "pw_uid", "num">>, <<"gid", "pw_gid", "num">>,
              <<"age", "pw_age", "text">>, <<"comment", "pw_comment", "text">>,
              <<"gecos", "pw_gecos", "text">>, <<"dir", "pw_dir", "text">>,
              <<"shell", "pw_shell", "text">> >>

\* The fields of the Group literal that follow the member walk
GrOrder == << <<"name", "gr_name", "text">>, <<"passwd", "gr_passwd", "text">>,
              <<"gid", "gr_gid", "num">> >>

EmptyRec == [x \in {} |-> None]

\* One field of the literal: read it from the struct p, `cs(..)?` for text
FromStep(order, buf, acc, i, p) ==
    LET f == order[i]
    IN  IF f[3] = "num" THEN Ok(acc @@ (f[1] :> p[f[2]]))
        ELSE LET r == cs(p[f[2]], <<buf, f[2]>>)
             IN  IF IsErr(r) THEN r ELSE Ok(acc @@ (f[1] :> r[2]))

RECURSIVE FromRun(_, _, _, _, _)
FromRun(order, buf, acc, i, p) ==
    IF i > Len(order) THEN Ok(acc)
    ELSE LET r == FromStep(order, buf, acc, i, p)
         IN  IF IsErr(r) THEN r ELSE FromRun(order, buf, r[2], i + 1, p)

PasswdFrom(p) == FromRun(PwOrder, "pw", EmptyRec, 1, p)

\* The member walk of Group::from: from the first pointer of the array until
\* the NULL sentinel, each member through cs(..)?.unwrap()
RECURSIVE WalkMembersNoStop(_, _, _)
WalkMembersNoStop(arr, i, members) ==
    IF i > Len(arr) THEN Ok(members)
    ELSE IF arr[i] = Null THEN WalkMembersNoStop(arr, i + 1, members)
    ELSE LET r == cs(arr[i], <<"gr", "gr_mem", i>>)
         IN  IF IsErr(r) THEN r
             ELSE WalkMembersNoStop(arr, i + 1, Append(members, r[2][2]))
RECURSIVE WalkMembers(_, _, _)
WalkMembers(arr, i, members) ==
    IF arr[i] = Null THEN Ok(members)
    ELSE LET r == cs(arr[i], <<"gr", "gr_mem", i>>)
         IN  IF IsErr(r) THEN r
             ELSE WalkMembers(arr, i + 1, Append(members, r[2][2]))

GroupFrom(g) ==
    LET mems == g.gr_mem
        members == IF mems # Null
                   THEN LET w == WalkMembers(mems[2], 1, <<>>)
                        IN  IF IsErr(w) THEN w ELSE Ok(Some(w[2]))
                   ELSE Ok(None)
    IN  IF IsErr(members) THEN members
        ELSE LET r == FromRun(GrOrder, "gr", EmptyRec, 1, g)
             IN  IF IsErr(r) THEN r
                 ELSE Ok(r[2] @@ ("members" :> members[2]))

----------------------------------------------------------------------------
(* get_user_attr_by_name *)

Insert(map, k, v) == [x \in (DOMAIN map) \cup {k} |-> IF x = k THEN v ELSE map[x]]

\* The loop over (*(*ua).attr).values(): an entry whose key and value both
\* decode is inserted, any other entry is skipped (`continue`).  log holds
\* the reads of the foreign buffer.
RECURSIVE CopyAttrs(_, _, _, _)
CopyAttrs(kva, i, attr, log) ==
    IF i > Len(kva) THEN [attr |-> attr, log |-> log]
    ELSE LET kv == kva[i]
             log2 == Append(log, <<"read", i>>)
         IN  IF Utf8Valid(kv.key) /\ Utf8Valid(kv.value)
             THEN CopyAttrs(kva, i + 1,
                      Insert(attr, to_string(kv.key, <<"ua", i, "key">>),
                                   to_string(kv.value, <<"ua", i, "value">>)),
                      log2)
             ELSE CopyAttrs(kva, i + 1, attr, log2)

\* The function after a non-null getusernam: copy, free_userattr, Ok(Some(out))
UserAttrFrom_EarlyReturn(name, ua) ==
    LET c == CopyAttrs(ua.attr, 1, EmptyRec, <<>>)
        bad == {i \in 1..Len(ua.attr) :
                   ~(Utf8Valid(ua.attr[i].key) /\ Utf8Valid(ua.attr[i].value))}
    IN  IF bad # {}
        THEN [ret |-> Err(Utf8Error),
              log |-> SubSeq(c.log, 1, CHOOSE i \in bad : \A j \in bad : i <= j)]
        ELSE [ret |-> Ok(Some([name |-> to_string(name, <<"arg">>), attr |-> c.attr])),
              log |-> Append(c.log, <<"free_userattr">>)]
UserAttrFrom(name, ua) ==
    LET c == CopyAttrs(ua.attr, 1, EmptyRec, <<>>)
    IN  [ret |-> Ok(Some([name |-> to_string(name, <<"arg">>), attr |-> c.attr])),
         log |-> Append(c.log, <<"free_userattr">>)]

\* The function after getusernam returned ua: NULL is absence, whatever errno
\* holds (e is the errno the library left; the code does not read it)
UserAttrResult_CheckErrno(name, ua, e, buf) ==
    IF ua = Null
    THEN [ret |-> IF e = 0 THEN Ok(None) ELSE Err(Bail("getusernam", e)),
          log |-> <<>>]
    ELSE UserAttrFrom(name, buf)
UserAttrResult(name, ua, e, buf) ==
    IF ua = Null THEN [ret |-> Ok(None), log |-> <<>>]
    ELSE UserAttrFrom(name, buf)

----------------------------------------------------------------------------
(* The lookups *)

\* clear_errno: *___errno() = 0
clear_errno_noop(e) == e
clear_errno(e) == 0

\* The tail of the four passwd/group lookups: p is the library's pointer, e
\* the errno read after the call, from the conversion of the reply buffer
LookupResult_IgnoreErrno(fn, p, e, from) ==
    IF p = Null THEN Ok(None)
    ELSE IF IsErr(from) THEN from ELSE Ok(Some(from[2]))
LookupResult(fn, p, e, from) ==
    IF p = Null
    THEN IF e = 0 THEN Ok(None) ELSE Err(Bail(fn, e))
    ELSE IF IsErr(from) THEN from ELSE Ok(Some(from[2]))

NoCall == [fn |-> "none", key |-> <<"none">>, lib |-> "notcalled",
           stale |-> FALSE, served |-> EmptyRec]
NoPrev == [rec |-> EmptyRec, served |-> EmptyRec]

IsRecord(r) == IsOk(r) /\ r[2] # None

\* The caller keeps the record the call before returned
Held == IF holding /\ IsRecord(ret)
        THEN [rec |-> ret[2][2], served |-> call.served]
        ELSE prev

Served(r) == IF r.lib = "found" THEN r.buf ELSE EmptyRec

get_passwd_by_id(uid, out) ==
    LET e0 == clear_errno(errno)
        r == LibLookup(dir.passwd, "pw_uid", uid, out, e0, pwbuf)
    IN  /\ errno' = r.errno
        /\ pwbuf' = r.buf
        /\ ret' = LookupResult("getpwuid", r.p, r.errno, PasswdFrom(r.buf))
        /\ call' = [fn |-> "get_passwd_by_id", key |-> IdKey(uid), lib |-> r.lib,
                    stale |-> errno # 0, served |-> Served(r)]
        /\ prev' = Held
        /\ ffi' = << <<"getpwuid">> >>
        /\ UNCHANGED <<grbuf, dir, holding, hostVars, profVars, concVars>>

get_passwd_by_name(name, out) ==
    LET e0 == clear_errno(errno)
        c == CString_new(name)
        r == LibLookup(dir.passwd, "pw_name", Ptr(name), out, e0, pwbuf)
    IN  /\ prev' = Held
        /\ UNCHANGED <<grbuf, dir, holding, hostVars, profVars, concVars>>
        /\ IF IsErr(c)
           THEN /\ errno' = e0
                /\ ret' = c
                /\ call' = [fn |-> "get_passwd_by_name", key |-> NameKey(name),
                            lib |-> "notcalled", stale |-> errno # 0, served |-> EmptyRec]
                /\ ffi' = <<>>
                /\ UNCHANGED pwbuf
           ELSE /\ errno' = r.errno
                /\ pwbuf' = r.buf
                /\ ret' = LookupResult("getpwnam", r.p, r.errno, PasswdFrom(r.buf))
                /\ call' = [fn |-> "get_passwd_by_name", key |-> NameKey(name),
                            lib |-> r.lib, stale |-> errno # 0, served |-> Served(r)]
                /\ ffi' = << <<"getpwnam">> >>

get_group_by_name(name, out) ==
    LET e0 == clear_errno(errno)
        c == CString_new(name)
        r == LibLookup(dir.group, "gr_name", Ptr(name), out, e0, grbuf)
    IN  /\ prev' = Held
        /\ UNCHANGED <<pwbuf, dir, holding, hostVars, profVars, concVars>>
        /\ IF IsErr(c)
           THEN /\ errno' = e0
                /\ ret' = c
                /\ call' = [fn |-> "get_group_by_name", key |-> NameKey(name),
                            lib |-> "notcalled", stale |-> errno # 0, served |-> EmptyRec]
                /\ ffi' = <<>>
                /\ UNCHANGED grbuf
           ELSE /\ errno' = r.errno
                /\ grbuf' = r.buf
                /\ ret' = LookupResult("getgrnam", r.p, r.errno, GroupFrom(r.buf))
                /\ call' = [fn |-> "get_group_by_name", key |-> NameKey(name),
                            lib |-> r.lib, stale |-> errno # 0, served |-> Served(r)]
                /\ ffi' = << <<"getgrnam">> >>

get_group_by_id(gid, out) ==
    LET e0 == clear_errno(errno)
        r == LibLookup(dir.group, "gr_gid", gid, out, e0, grbuf)
    IN  /\ errno' = r.errno
        /\ grbuf' = r.buf
        /\ ret' = LookupResult("getgrgid", r.p, r.errno, GroupFrom(r.buf))
        /\ call' = [fn |-> "get_group_by_id", key |-> IdKey(gid), lib |-> r.lib,
                    stale |-> errno # 0, served |-> Served(r)]
        /\ prev' = Held
        /\ ffi' = << <<"getgrgid">> >>
        /\ UNCHANGED <<pwbuf, dir, holding, hostVars, profVars, concVars>>

\* getusernam: a match is returned in a buffer allocated for the caller, no
\* match and a failure both return NULL; a failure sets errno
get_user_attr_by_name(name, out) ==
    LET c == CString_new(name)
        r == LibLookup(dir.userattr, "name", name, out, errno, EmptyRec)
    IN  /\ prev' = Held
        /\ UNCHANGED <<pwbuf, grbuf, dir, holding, hostVars, profVars, concVars>>
        /\ IF IsErr(c)
           THEN /\ ret' = c
                /\ call' = [fn |-> "get_user_attr_by_name", key |-> NameKey(name),
                            lib |-> "notcalled", stale |-> errno # 0, served |-> EmptyRec]
                /\ ffi' = <<>>
                /\ UNCHANGED errno
           ELSE /\ errno' = r.errno
                /\ call' = [fn |-> "get_user_attr_by_name", key |-> NameKey(name),
                            lib |-> r.lib, stale |-> errno # 0, served |-> Served(r)]
                /\ LET u == UserAttrResult(name, r.p, r.errno, r.buf)
                   IN  /\ ret' = u.ret
                       /\ ffi' = << <<"getusernam">> >> \o u.log

----------------------------------------------------------------------------
(* What a record should hold: the entry as stored upstream *)

PwFns == {"get_passwd_by_id", "get_passwd_by_name"}
GrFns == {"get_group_by_id", "get_group_by_name"}
PwGrFns == PwFns \cup GrFns
LookupFns == PwGrFns \cup {"get_user_attr_by_name"}

\* The library call each lookup makes
LibName(fn) ==
    CASE fn = "get_passwd_by_id" -> "getpwuid"
      [] fn = "get_passwd_by_name" -> "getpwnam"
      [] fn = "get_group_by_id" -> "getgrgid"
      [] fn = "get_group_by_name" -> "getgrnam"
      [] OTHER -> "getusernam"

\* Whether the directory holds an entry for the key of the last call
HasEntry ==
    LET k == call.key[2]
    IN  CASE call.fn = "get_passwd_by_id" -> \E en \in dir.passwd : en.pw_uid = k
          [] call.fn = "get_passwd_by_name" -> \E en \in dir.passwd : en.pw_name = Ptr(k)
          [] call.fn = "get_group_by_id" -> \E en \in dir.group : en.gr_gid = k
          [] call.fn = "get_group_by_name" -> \E en \in dir.group : en.gr_name = Ptr(k)
          [] OTHER -> \E en \in dir.userattr : en.name = k

HasNul(name) == \E i \in 1..Len(name) : name[i] = 0
KeyHasNul == call.key[1] = "name" /\ HasNul(call.key[2])

ImgOpt(ptr) == IF ptr = Null THEN None ELSE Some(ptr[2])

ImagePasswd(en) ==
    [name |-> ImgOpt(en.pw_name), passwd |-> ImgOpt(en.pw_passwd),
     uid |-> en.pw_uid, gid |-> en.pw_gid, age |-> ImgOpt(en.pw_age),
     comment |-> ImgOpt(en.pw_comment), gecos |-> ImgOpt(en.pw_gecos),
     dir |-> ImgOpt(en.pw_dir), shell |-> ImgOpt(en.pw_shell)]

\* The index of the first NULL of a member array
Sentinel(arr) == CHOOSE k \in 1..Len(arr) :
                     arr[k] = Null /\ \A j \in 1..(k - 1) : arr[j] # Null

ImageMembers(mem) ==
    IF mem = Null THEN None
    ELSE Some([i \in 1..(Sentinel(mem[2]) - 1) |-> mem[2][i][2]])

ImageGroup(en) ==
    [name |-> ImgOpt(en.gr_name), passwd |-> ImgOpt(en.gr_passwd),
     gid |-> en.gr_gid, members |-> ImageMembers(en.gr_mem)]

KvValid(kv) == Utf8Valid(kv.key) /\ Utf8Valid(kv.value)

\* The key/value pairs an attribute map should hold: of the decodable
\* entries, the last one of each key
ImageAttr(kva) ==
    {<<kva[i].key, kva[i].value>> : i \in
        {i \in 1..Len(kva) :
            /\ KvValid(kva[i])
            /\ \A j \in (i + 1)..Len(kva) :
                  KvValid(kva[j]) => kva[j].key # kva[i].key}}

ImageUserAttr(en) == [name |-> en.name, attr |-> ImageAttr(en.attr)]

Image(en) ==
    IF "pw_name" \in DOMAIN en THEN ImagePasswd(en)
    ELSE IF "gr_name" \in DOMAIN en THEN ImageGroup(en)
    ELSE ImageUserAttr(en)

\* What a record holds now, as its holder reads it: an owned string is its
\* own bytes; a borrowed one is whatever the place it points to holds now
Deref(loc) ==
    IF loc[1] = "pw" THEN (IF pwbuf[loc[2]] = Null THEN <<>> ELSE pwbuf[loc[2]][2])
    ELSE IF loc[1] = "gr" /\ loc[2] # "gr_mem"
    THEN (IF grbuf[loc[2]] = Null THEN <<>> ELSE grbuf[loc[2]][2])
    ELSE IF loc[1] = "gr"
    THEN LET m == grbuf.gr_mem
         IN  IF m = Null THEN <<>>
             ELSE IF loc[3] > Len(m[2]) THEN <<>>
             ELSE IF m[2][loc[3]] = Null THEN <<>>
             ELSE m[2][loc[3]][2]
    ELSE <<>>
ViewStr(s) == IF s[1] = "own" THEN s[2] ELSE Deref(s[2])
ViewOpt(o) == IF o = None THEN None ELSE Some(ViewStr(o[2]))

ViewPasswd(r) ==
    [name |-> ViewOpt(r.name), passwd |-> ViewOpt(r.passwd), uid |-> r.uid,
     gid |-> r.gid, age |-> ViewOpt(r.age), comment |-> ViewOpt(r.comment),
     gecos |-> ViewOpt(r.gecos), dir |-> ViewOpt(r.dir), shell |-> ViewOpt(r.shell)]

ViewGroup(r) ==
    [name |-> ViewOpt(r.name), passwd |-> ViewOpt(r.passwd), gid |-> r.gid,
     members |-> IF r.members = None THEN None
                 ELSE Some([i \in 1..Len(r.members[2]) |-> ViewStr(r.members[2][i])])]

ViewUserAttr(r) ==
    [name |-> ViewStr(r.name),
     attr |-> {<<ViewStr(k), ViewStr(r.attr[k])>> : k \in DOMAIN r.attr}]

View(r) ==
    IF "uid" \in DOMAIN r THEN ViewPasswd(r)
    ELSE IF "members" \in DOMAIN r THEN ViewGroup(r)
    ELSE ViewUserAttr(r)

----------------------------------------------------------------------------
(* The claims about the lookups *)

\* C1 as stated: a lookup for a name or id that has no matching directory
\* entry returns Ok(None), never an error.
C1_Original ==
    (call.fn \in LookupFns /\ ~HasEntry) => ret = Ok(None)

\* C1 as amended: a lookup for an id, or for a name without an interior NUL
\* byte, that has no matching directory entry returns Ok(None) whenever the
\* library call itself does not fail, also when errno was non-zero when the
\* call began.
C1_AbsentIsNone ==
    (call.fn \in LookupFns /\ ~HasEntry /\ ~KeyHasNul /\ call.lib # "fail")
        => ret = Ok(None)

C1_Witness ==
    /\ call.fn \in PwGrFns
    /\ ~HasEntry
    /\ call.stale
    /\ call.lib = "notfound"
    /\ ret = Ok(None)

\* C2: when the library call of a passwd/group lookup returns NULL and leaves
\* errno = e # 0, the lookup returns the error naming that library call and
\* e: neither Ok(None) nor a record.
C2_FailureIsError ==
    (call.fn \in PwGrFns /\ call.lib = "fail")
        => /\ errno # 0
           /\ ret = Err(<<"msg", LibName(call.fn), "errno", errno>>)

C2_Witness ==
    /\ call.fn = "get_group_by_id"
    /\ call.lib = "fail"
    /\ errno = 12
    /\ IsErr(ret)

Frees == {j \in 1..Len(ffi) : ffi[j] = <<"free_userattr">>}
Reads(i) == {j \in 1..Len(ffi) : ffi[j] = <<"read", i>>}

\* C3: in get_user_attr_by_name, when getusernam returned a buffer,
\* free_userattr is called exactly once, as the last foreign operation, after
\* every entry of the buffer was read; when getusernam returned NULL it is
\* not called.
C3_FreedOnceAfterCopy ==
    call.fn = "get_user_attr_by_name" =>
        IF call.lib = "found"
        THEN /\ Cardinality(Frees) = 1
             /\ Frees = {Len(ffi)}
             /\ \A i \in 1..Len(call.served.attr) : Cardinality(Reads(i)) = 1
             /\ IsRecord(ret)
        ELSE Frees = {}

C3_Witness ==
    /\ call.fn = "get_user_attr_by_name"
    /\ call.lib = "found"
    /\ Len(call.served.attr) = 2
    /\ ~KvValid(call.served.attr[1])
    /\ Frees = {Len(ffi)}

\* C4: the record a lookup returns holds the data of the entry served for
\* that lookup and nothing else, and a record returned earlier still reads
\* as the entry it was made from after later lookups have overwritten the
\* static reply buffers.
C4_NoLeakBetweenCalls ==
    /\ IsRecord(ret) => View(ret[2][2]) = Image(call.served)
    /\ prev # NoPrev => View(prev.rec) = Image(prev.served)

C4_Witness ==
    /\ prev # NoPrev
    /\ "pw_name" \in DOMAIN prev.served
    /\ prev.served = PwA
    /\ call.fn \in PwFns
    /\ IsRecord(ret)
    /\ pwbuf = PwB

BadText(ptr) == ptr # Null /\ ~Utf8Valid(ptr[2])
ServedHasBadText ==
    LET en == call.served
    IN  IF call.fn \in PwFns THEN \E f \in PwTextFields : BadText(en[f])
        ELSE \/ BadText(en.gr_name)
             \/ BadText(en.gr_passwd)
             \/ /\ en.gr_mem # Null
                /\ \E i \in 1..(Sentinel(en.gr_mem[2]) - 1) : BadText(en.gr_mem[2][i])

\* C6: an attribute entry whose key or value is not valid text is skipped and
\* get_user_attr_by_name returns the map of the other entries; one text field
\* or member that is not valid text makes a passwd/group lookup return the
\* decoding error, and no record.
C6_DecodeAsymmetry ==
    /\ (call.fn = "get_user_attr_by_name" /\ call.lib = "found")
          => /\ IsRecord(ret)
             /\ View(ret[2][2]).attr = ImageAttr(call.served.attr)
    /\ (call.fn \in PwGrFns /\ call.lib = "found")
          => (ServedHasBadText <=> ret = Err(Utf8Error))

C6_Witness ==
    /\ call.fn = "get_user_attr_by_name"
    /\ call.lib = "found"
    /\ Len(call.served.attr) = 2
    /\ KvValid(call.served.attr[1])
    /\ ~KvValid(call.served.attr[2])
    /\ IsRecord(ret)
    /\ Cardinality(DOMAIN ret[2][2].attr) = 1

\* C8: a group entry with an empty member list is returned with members
\* None (NULL array) or the empty sequence (array of the sentinel alone), and
\* in general members are the entries before the first NULL, in order.
C8_MembersUpToSentinel ==
    (call.fn \in GrFns /\ call.lib = "found" /\ ~ServedHasBadText)
        => /\ IsRecord(ret)
           /\ View(ret[2][2]).members = ImageMembers(call.served.gr_mem)
           /\ call.served.gr_mem = Null => ret[2][2].members = None
           /\ (call.served.gr_mem # Null /\ call.served.gr_mem[2][1] = Null)
                 => ret[2][2].members = Some(<<>>)

C8_Witness ==
    /\ call.fn \in GrFns
    /\ call.lib = "found"
    /\ call.served.gr_mem # Null
    /\ call.served.gr_mem[2][1] = Null
    /\ IsRecord(ret)
    /\ ret[2][2].members = Some(<<>>)

----------------------------------------------------------------------------
(* nodename, zoneid, zonename *)

\* The status of exit(100)
EXIT_STATUS == 100
\* The size of zonename's buffer
ZONENAME_MAX == 64

\* CStr::from_bytes_with_nul: the bytes must end with their only NUL
CStr_from_bytes_with_nul(bytes) ==
    IF /\ Len(bytes) >= 1
       /\ bytes[Len(bytes)] = 0
       /\ \A i \in 1..(Len(bytes) - 1) : bytes[i] # 0
    THEN Ok(SubSeq(bytes, 1, Len(bytes) - 1))
    ELSE Err(<<"FromBytesWithNulError">>)

\* CStr::to_str
to_str(cstr) == IF Utf8Valid(cstr) THEN Ok(cstr) ELSE Err(Utf8Error)

Running == [fn |-> "none", status |-> "returned", code |-> 0, sz |-> 0,
            valid |-> TRUE, value |-> <<>>]
Alive == host.status = "returned"

\* uname's result and the node name it stored
UnameResults == {-1, 0, 1}
NodeNames == {<<>>, <<104>>, <<104, 111, 115, 116>>, <<104, 255>>}

nodename(rc, nn) ==
    /\ Alive
    /\ UNCHANGED <<seqVars, profVars, concVars>>
    /\ IF rc < 0
       THEN host' = [fn |-> "nodename", status |-> "exited", code |-> EXIT_STATUS,
                     sz |-> rc, valid |-> Utf8Valid(nn), value |-> <<>>]
       ELSE LET s == to_str(nn)
            IN  IF IsErr(s)
                THEN host' = [fn |-> "nodename", status |-> "panicked", code |-> 0,
                              sz |-> rc, valid |-> Utf8Valid(nn), value |-> <<>>]
                ELSE host' = [fn |-> "nodename", status |-> "returned", code |-> 0,
                              sz |-> rc, valid |-> Utf8Valid(nn), value |-> to_string(s[2], <<"un">>)]

ZoneIds == {0, 3}
zoneid(id) ==
    /\ Alive
    /\ UNCHANGED <<seqVars, profVars, concVars>>
    /\ host' = [fn |-> "zoneid", status |-> "returned", code |-> 0, sz |-> 0,
                valid |-> TRUE, value |-> id]

\* getzonenamebyid: what the buffer of buflen zeroed bytes holds after a call
\* that returned sz: the first sz bytes of the zone's name and its NUL (the
\* name has sz - 1 bytes), cut at buflen.  A name is letters, or begins with a
\* byte that is not valid UTF-8.
ZoneBuf(sz, buflen, valid) ==
    [i \in 1..buflen |->
        IF i >= sz THEN 0
        ELSE IF i = 1 /\ ~valid THEN 255 ELSE 122]

ZoneSizes == (-2)..(ZONENAME_MAX + 2)

zonename(sz, valid) ==
    /\ Alive
    /\ UNCHANGED <<seqVars, profVars, concVars>>
    /\ IF sz > ZONENAME_MAX \/ sz < 0
       THEN host' = [fn |-> "zonename", status |-> "exited", code |-> EXIT_STATUS,
                     sz |-> sz, valid |-> valid, value |-> <<>>]
       ELSE LET buf == SubSeq(ZoneBuf(sz, ZONENAME_MAX, valid), 1, sz)
                c == CStr_from_bytes_with_nul(buf)
                s == IF IsErr(c) THEN c ELSE to_str(c[2])
            IN  IF IsErr(s)
                THEN host' = [fn |-> "zonename", status |-> "panicked", code |-> 0,
                              sz |-> sz, valid |-> valid, value |-> <<>>]
                ELSE host' = [fn |-> "zonename", status |-> "returned", code |-> 0,
                              sz |-> sz, valid |-> valid, value |-> to_string(s[2], <<"buf">>)]

HostInit == host = Running

----------------------------------------------------------------------------
(* UserAttr::profiles *)

\* char::is_whitespace on ASCII
is_whitespace(c) == c \in {9, 10, 11, 12, 13, 32}

\* str::trim
RECURSIVE trim_start(_)
trim_start(s) ==
    IF s # <<>> /\ is_whitespace(Head(s)) THEN trim_start(Tail(s)) ELSE s
RECURSIVE trim_end(_)
trim_end(s) ==
    IF s # <<>> /\ is_whitespace(s[Len(s)])
    THEN trim_end(SubSeq(s, 1, Len(s) - 1)) ELSE s
trim_start_only(s) == trim_start(s)
trim(s) == trim_end(trim_start(s))

\* str::split(','): the pieces between the separators, empty ones included
RECURSIVE split_from(_, _, _, _)
split_from(s, sep, i, piece) ==
    IF i > Len(s) THEN <<piece>>
    ELSE IF s[i] = sep THEN <<piece>> \o split_from(s, sep, i + 1, <<>>)
    ELSE split_from(s, sep, i + 1, Append(piece, s[i]))
split_skip_empty(s, sep) ==
    SelectSeq(split_from(s, sep, 1, <<>>), LAMBDA x : x # <<>>)
split(s, sep) == split_from(s, sep, 1, <<>>)

\* "profiles" as a String key of the attribute map
ProfilesKey == <<"own", <<112, 114, 111, 102, 105, 108, 101, 115>>>>
RolesKey == <<"own", <<114, 111, 108, 101, 115>>>>

profiles(ua) ==
    IF ProfilesKey \in DOMAIN ua.attr
    THEN LET p == ua.attr[ProfilesKey][2]
             pieces == split(p, 44)
         IN  [i \in 1..Len(pieces) |-> to_string(trim(pieces[i]), <<"self">>)]
    ELSE <<>>

\* The attribute values of the model: the strings of at most MaxLen
\* characters over a, b, space and comma, and "a, b,c"
MaxLen == 4
ProfChars == {97, 98, 32, 44}
Example == <<97, 44, 32, 98, 44, 99>>
ProfValues == SeqsUpTo(ProfChars, MaxLen) \cup {Example}

UserAttrs ==
    {[name |-> <<"own", <<97>>>>, attr |-> EmptyRec]}
    \cup {[name |-> <<"own", <<97>>>>, attr |-> (k :> <<"own", v>>)] :
            k \in {ProfilesKey, RolesKey}, v \in ProfValues}

NotCalled == <<"not called">>

ProfInit ==
    /\ self \in UserAttrs
    /\ profs = NotCalled

CallProfiles ==
    /\ profs = NotCalled
    /\ profs' = <<"returned", profiles(self)>>
    /\ UNCHANGED <<self, seqVars, hostVars, concVars>>

----------------------------------------------------------------------------
(* The passwd lookups called from two threads *)

Threads == {1, 2}
\* How many lookups each thread makes
MaxCalls == 2

ThreadIdle == [pc |-> "idle", fn |-> "none", errno |-> 0, p |-> Null,
               acc |-> EmptyRec, i |-> 1, ret |-> Ok(None), served |-> EmptyRec,
               calls |-> 0]

ConcInit(modes) ==
    /\ th = [t \in Threads |-> ThreadIdle]
    /\ lock = 0
    /\ serialized \in modes

ConcIdle == ConcInit({FALSE})

\* The caller's mutex (the external serialization the lookups need when they
\* are called from several threads)
Acquire(t) ==
    /\ serialized
    /\ th[t].pc \in {"idle", "done"}
    /\ th[t].calls < MaxCalls
    /\ lock = 0
    /\ lock' = t
    /\ th' = [th EXCEPT ![t].pc = "ready"]
    /\ UNCHANGED <<serialized, seqVars, hostVars, profVars>>

Release(t) ==
    /\ serialized
    /\ th[t].pc = "done"
    /\ lock = t
    /\ lock' = 0
    /\ UNCHANGED <<th, serialized, seqVars, hostVars, profVars>>

MayCall(t) ==
    \/ th[t].pc = "ready"
    \/ ~serialized /\ th[t].pc \in {"idle", "done"} /\ th[t].calls < MaxCalls

\* A passwd lookup up to the test of the library's pointer: clear_errno, the
\* library call (which writes the shared reply buffer), errno, p.is_null().
\* c is the result of CString::new (Ok for a lookup by id), r the library's
\* answer.
ThreadLookup(t, fn, c, r) ==
    /\ MayCall(t)
    /\ UNCHANGED <<lock, serialized, errno, grbuf, dir, call, ret, holding, prev,
                   ffi, hostVars, profVars>>
    /\ IF IsErr(c)
       THEN /\ th' = [th EXCEPT ![t] = [pc |-> "done", fn |-> fn,
                         errno |-> clear_errno(th[t].errno), p |-> Null,
                         acc |-> EmptyRec, i |-> 1, ret |-> c,
                         served |-> EmptyRec, calls |-> th[t].calls + 1]]
            /\ UNCHANGED pwbuf
       ELSE /\ pwbuf' = r.buf
            /\ th' = [th EXCEPT ![t] =
                         [pc |-> IF r.p = Null THEN "done" ELSE "copy",
                          fn |-> fn, errno |-> r.errno, p |-> r.p,
                          acc |-> EmptyRec, i |-> 1,
                          ret |-> IF r.p = Null
                                  THEN LookupResult(LibName(fn), r.p, r.errno, Ok(None))
                                  ELSE Ok(None),
                          served |-> Served(r), calls |-> th[t].calls + 1]]

thread_get_passwd_by_name(t, name, o) ==
    ThreadLookup(t, "get_passwd_by_name", CString_new(name),
                 LibLookup(dir.passwd, "pw_name", Ptr(name), o,
                           clear_errno(th[t].errno), pwbuf))

thread_get_passwd_by_id(t, uid, o) ==
    ThreadLookup(t, "get_passwd_by_id", Ok(uid),
                 LibLookup(dir.passwd, "pw_uid", uid, o,
                           clear_errno(th[t].errno), pwbuf))

\* Passwd::from, one field of the literal at a time: each field is read from
\* the reply buffer as it is when the field is read
thread_from(t) ==
    /\ th[t].pc = "copy"
    /\ UNCHANGED <<lock, serialized, seqVars, hostVars, profVars>>
    /\ LET r == FromStep(PwOrder, "pw", th[t].acc, th[t].i, pwbuf)
       IN  IF IsErr(r)
           THEN th' = [th EXCEPT ![t].pc = "done", ![t].ret = r]
           ELSE IF th[t].i = Len(PwOrder)
           THEN th' = [th EXCEPT ![t].pc = "done", ![t].acc = r[2],
                           ![t].ret = LookupResult(LibName(th[t].fn), th[t].p,
                                                   th[t].errno, r)]
           ELSE th' = [th EXCEPT ![t].acc = r[2], ![t].i = th[t].i + 1]

----------------------------------------------------------------------------
(* The claims about nodename, zonename and profiles *)

\* C7: nodename ends the process with status 100 when uname fails; zonename
\* ends it with status 100 when getzonenamebyid returns a negative size or
\* one over 64, and returns a string for every size from 0 to 64 (the name
\* being valid text).
C7_FatalOrString ==
    /\ (host.fn = "nodename" /\ host.sz < 0)
          => (host.status = "exited" /\ host.code = EXIT_STATUS)
    /\ (host.fn = "zonename" /\ (host.sz < 0 \/ host.sz > ZONENAME_MAX))
          => (host.status = "exited" /\ host.code = EXIT_STATUS)
    /\ (host.fn = "zonename" /\ host.sz \in 0..ZONENAME_MAX /\ host.valid)
          => host.status = "returned"

Called == profs # NotCalled
Commas(s) == Cardinality({i \in 1..Len(s) : s[i] = 44})
Strip(s) == SelectSeq(s, LAMBDA c : ~is_whitespace(c))
RECURSIVE Join(_)
Join(pieces) ==
    IF Len(pieces) = 0 THEN <<>>
    ELSE IF Len(pieces) = 1 THEN pieces[1]
    ELSE pieces[1] \o <<44>> \o Join(Tail(pieces))
IsSubstring(t, s) ==
    \E i \in 1..(Len(s) + 1) :
        /\ i + Len(t) - 1 <= Len(s)
        /\ SubSeq(s, i, i + Len(t) - 1) = t

\* C9: profiles() returns the pieces of the "profiles" value between its
\* commas, in order, each without surrounding whitespace, duplicates and
\* empty pieces kept: as many pieces as commas plus one, and "a, b,c" gives
\* a, b, c; without the attribute it returns the empty sequence.
C9_ProfilesSplit ==
    Called =>
        LET r == profs[2]
        IN  IF ProfilesKey \notin DOMAIN self.attr THEN r = <<>>
            ELSE LET s == self.attr[ProfilesKey][2]
                     pieces == [i \in 1..Len(r) |-> r[i][2]]
                 IN  /\ Len(r) = Commas(s) + 1
                     /\ \A i \in 1..Len(r) :
                           /\ r[i][1] = "own"
                           /\ Commas(pieces[i]) = 0
                           /\ pieces[i] # <<>> =>
                                 /\ ~is_whitespace(pieces[i][1])
                                 /\ ~is_whitespace(pieces[i][Len(pieces[i])])
                           /\ IsSubstring(pieces[i], s)
                     /\ Strip(Join(pieces)) = Strip(s)
                     /\ s = Example => pieces = << <<97>>, <<98>>, <<99>> >>

\* C10: with the mutex around each lookup-and-copy, every record a passwd
\* lookup returns reads as the entry served for that lookup, also while the
\* other thread is in a lookup of its own; without the mutex a lookup can
\* return a record that mixes the fields of two entries (the witness).
C10_MutexMakesLookupsSafe ==
    serialized =>
        \A t \in Threads :
            (th[t].pc = "done" /\ IsRecord(th[t].ret))
                => View(th[t].ret[2][2]) = ImagePasswd(th[t].served)

C10_Witness ==
    /\ ~serialized
    /\ \E t \in Threads :
          /\ th[t].pc = "done"
          /\ IsRecord(th[t].ret)
          /\ th[t].served = PwA
          /\ View(th[t].ret[2][2]).name = Some(<<97>>)
          /\ View(th[t].ret[2][2]).dir = Some(<<47, 98>>)

C9_Witness ==
    /\ Called
    /\ ProfilesKey \in DOMAIN self.attr
    /\ self.attr[ProfilesKey][2] = Example
    /\ profs[2] = << <<"own", <<97>>>>, <<"own", <<98>>>>, <<"own", <<99>>>> >>

----------------------------------------------------------------------------
(* The specifications *)

SeqInit(dirs, hold) ==
    /\ errno = 0
    /\ pwbuf = PwZero
    /\ grbuf = GrZero
    /\ dir \in dirs
    /\ holding = hold
    /\ call = NoCall
    /\ ret = Ok(None)
    /\ prev = NoPrev
    /\ ffi = <<>>

Next ==
    \/ \E name \in Names, out \in LibOutcomes : get_user_attr_by_name(name, out)
    \/ \E uid \in Ids, out \in LibOutcomes : get_passwd_by_id(uid, out)
    \/ \E name \in Names, out \in LibOutcomes : get_passwd_by_name(name, out)
    \/ \E name \in Names, out \in LibOutcomes : get_group_by_name(name, out)
    \/ \E gid \in Ids, out \in LibOutcomes : get_group_by_id(gid, out)

vars == <<seqVars, hostVars, profVars, concVars>>

BaseDirectory == Directory(PwB, GrB, UaB)

ProfIdle ==
    /\ self = [name |-> <<"own", <<97>>>>, attr |-> EmptyRec]
    /\ profs = NotCalled

\* The lookups, called one after the other by one thread
Init == SeqInit(Directories, FALSE) /\ HostInit /\ ProfIdle /\ ConcIdle
Spec == Init /\ [][Next]_vars

\* The same program with a caller that keeps the records it was returned
HoldDirectories ==
    {BaseDirectory}
    \cup {Directory([PwB EXCEPT ![f] = Ptr(BadBytes)], GrB, UaB) : f \in PwTextFields}
    \cup {Directory(PwB, [GrB EXCEPT ![f] = Ptr(BadBytes)], UaB) :
            f \in {"gr_name", "gr_passwd"}}
InitHold == SeqInit(HoldDirectories, TRUE) /\ HostInit /\ ProfIdle /\ ConcIdle
SpecHold == InitHold /\ [][Next]_vars

\* nodename, zoneid and zonename, until the process ends
InitHost == SeqInit({BaseDirectory}, FALSE) /\ HostInit /\ ProfIdle /\ ConcIdle
NextHost ==
    \/ \E rc \in UnameResults, nn \in NodeNames : nodename(rc, nn)
    \/ \E id \in ZoneIds : zoneid(id)
    \/ \E sz \in ZoneSizes, valid \in BOOLEAN : zonename(sz, valid)
SpecHost == InitHost /\ [][NextHost]_vars

\* profiles() on a UserAttr
InitProf == SeqInit({BaseDirectory}, FALSE) /\ HostInit /\ ProfInit /\ ConcIdle
NextProf == CallProfiles
SpecProf == InitProf /\ [][NextProf]_vars

\* The passwd lookups called from two threads, with and without the mutex
InitConc == SeqInit({BaseDirectory}, FALSE) /\ HostInit /\ ProfIdle
                /\ ConcInit(BOOLEAN)
NextConc ==
    \/ \E t \in Threads : Acquire(t)
    \/ \E t \in Threads, name \in Names, o \in LibOutcomes :
           thread_get_passwd_by_name(t, name, o)
    \/ \E t \in Threads, uid \in Ids, o \in LibOutcomes :
           thread_get_passwd_by_id(t, uid, o)
    \/ \E t \in Threads : thread_from(t)
    \/ \E t \in Threads : Release(t)
SpecConc == InitConc /\ [][NextConc]_vars

====
